---- MODULE Spec2Model ----
(***************************************************************************)
(* The TextBox widget of conrod (src/widget/text_box.rs): the text buffer, *)
(* the cursor / selection, the drag mode and the cached line layout, as    *)
(* driven by the event loop of TextBox::update.                            *)
(*                                                                         *)
(* One update pass is BeginPass (the host supplies the text, the rect and  *)
(* the wrap policy, and the cached layout is refreshed), any number of     *)
(* event actions (one per iteration of the 'events loop) and EndPass (the  *)
(* write-back of the local cursor and drag mode).                          *)
(*                                                                         *)
(* Characters are modelled as one-character strings, a text as a sequence  *)
(* of characters.  Every glyph is one unit wide and the available width is *)
(* counted in the same unit.                                               *)
(***************************************************************************)
EXTENDS Integers, Sequences, FiniteSets, TLC

VARIABLES
    text,        \* the host's String, borrowed by the pass (TextBox::text)
    rect,        \* [w, h]: the available rectangle of the pass (args.rect)
    line_wrap,   \* style.line_wrap: "Whitespace" or "Character"
    enabled,     \* TextBox::enabled, as the host built the widget for the pass
    state,       \* widget State: [cursor, drag, line_infos]
    cursor,      \* update's local `cursor`
    drag,        \* update's local `drag`
    pc,          \* "idle" (between passes), "events" (in the loop), "panic"
    nev,         \* how many events of the pass's batch the loop has yet to take
    ev,          \* history: the last step taken and its outcome
    undo,        \* history: the buffer before the last accepted insertion at
                 \* a caret, and how many Backspaces are still to follow it
    anchor,      \* history: the caret index the last press left and how many
                 \* drags followed it with no other event in between
    pressed,     \* history: a left press was seen and no left release since
    updated      \* history: the State fields the last step called
                 \* state.update on

vars == <<text, rect, line_wrap, enabled, state, cursor, drag, pc, nev, ev,
          undo, anchor, pressed, updated>>

----------------------------------------------------------------------------
(* Bounds of the model *)

\* longest buffer the model lets an insertion build
MaxLen == 2
\* most events the host queues for one pass
MaxBatch == 1

----------------------------------------------------------------------------
(* Program constants *)

\* widget_style!: font_size default
FontSize == 24
\* widget_style!: line_spacing default
LineSpacing == 1
\* usize::MAX, what 0 - 1 wraps to when overflow checks are off; the model
\* only needs it to exceed every character count (TLC integers are 32 bit)
UsizeMax == 2147483647

\* the private-use characters the arrow keys produce on OS X
ArrowChars == {"\\u{f700}", "\\u{f701}", "\\u{f702}", "\\u{f703}"}

\* the rects the host may give the widget: widths in glyph units, heights
\* in the unit of the font size.  49 is exactly the height of two lines, so
\* leaves room for one; 50 leaves room for two lines and none for three.
Rects == { [w |-> 1, h |-> 49], [w |-> 2, h |-> 50] }
\* and with them a rect exactly as high as one line
TightRects == Rects \cup { [w |-> 2, h |-> 24] }
Wraps == {"Whitespace", "Character"}

\* the strings of the Text events the model delivers
Strings == { <<>>, <<"a">>, <<" ">>, <<"a", "a">>, <<"\\u{f700}">> }
\* and a text of two arrow-key characters
ArrowStrings == { <<"\\u{f702}">>, <<"\\u{f700}", "\\u{f700}">> }
\* the Text events over a set of strings, <<string, ctrl>>: each string
\* without Ctrl, and one of them with Ctrl held
TextInputs(strings) ==
    { <<string, FALSE>> : string \in strings } \cup { << <<"a">>, TRUE >> }

\* the buffers the host may hand to a pass
HostTexts == { <<>>, <<" ", "a", "a">>, <<"a", " ", "a">> }

----------------------------------------------------------------------------
(* Option values *)

None == <<>>
Some(x) == <<x>>
IsSome(o) == Len(o) = 1
Unwrap(o) == o[1]
UnwrapOr(o, d) == IF IsSome(o) THEN o[1] ELSE d

----------------------------------------------------------------------------
(* text::line: the Line Layout Engine *)

CharWidth(ch) == 1

IsWhitespace(ch) == ch = " "

\* One line of the whitespace wrap, scanning from the 1-based position i.
\* start is the character offset of the line's start, ws the offset just
\* after the last whitespace seen (0: none), wsWidth the width before it.
RECURSIVE NextBreakByWhitespace(_, _, _, _, _, _, _)
NextBreakByWhitespace(txt, start, i, width, ws, wsWidth, maxw) ==
    IF i > Len(txt)
    THEN [end_char |-> Len(txt), width |-> width]
    ELSE LET ch == txt[i]
             new_width == width + CharWidth(ch)
         IN IF ~IsWhitespace(ch) /\ new_width > maxw /\ i - 1 > start
            THEN IF ws > start
                 THEN [end_char |-> ws, width |-> wsWidth]
                 ELSE [end_char |-> i - 1, width |-> width]
            ELSE NextBreakByWhitespace(txt, start, i + 1, new_width,
                    IF IsWhitespace(ch) THEN i ELSE ws,
                    IF IsWhitespace(ch) THEN width ELSE wsWidth, maxw)

\* One line of the character wrap.
RECURSIVE NextBreakByCharacter(_, _, _, _, _)
NextBreakByCharacter(txt, start, i, width, maxw) ==
    IF i > Len(txt)
    THEN [end_char |-> Len(txt), width |-> width]
    ELSE LET new_width == width + CharWidth(txt[i])
         IN IF new_width > maxw /\ i - 1 > start
            THEN [end_char |-> i - 1, width |-> width]
            ELSE NextBreakByCharacter(txt, start, i + 1, new_width, maxw)

\* The line Infos of txt from character offset start on; none for "".
RECURSIVE Infos(_, _, _, _)
Infos(txt, start, wrap, maxw) ==
    IF start >= Len(txt)
    THEN <<>>
    ELSE LET brk == IF wrap = "Whitespace"
                    THEN NextBreakByWhitespace(txt, start, start + 1, 0, 0, 0, maxw)
                    ELSE NextBreakByCharacter(txt, start, start + 1, 0, maxw)
         IN <<[start_char |-> start, end_char |-> brk.end_char,
               width |-> brk.width]>>
            \o Infos(txt, brk.end_char, wrap, maxw)

\* update's local fn line_infos, collected
line_infos(txt, wrap, maxw) == Infos(txt, 0, wrap, maxw)

\* text::height
height(num_lines) ==
    IF num_lines > 0
    THEN num_lines * FontSize + (num_lines - 1) * LineSpacing
    ELSE 0

----------------------------------------------------------------------------
(* text::cursor / text::char: the Cursor Index Algebra *)

Index(l, c) == [line |-> l, char |-> c]

\* the derived ordering of text::cursor::Index: by line, then by char
IndexLe(a, b) == a.line < b.line \/ (a.line = b.line /\ a.char <= b.char)
\* a minimum that is always the first of the two, the anchor of a selection
IndexMin_First(a, b) == a
IndexMin(a, b) == IF IndexLe(a, b) THEN a ELSE b
IndexMax(a, b) == IF IndexLe(a, b) THEN b ELSE a

\* text::char::index_after_cursor
index_after_cursor(infos, idx) ==
    IF idx.line + 1 > Len(infos)
    THEN None
    ELSE LET info == infos[idx.line + 1]
             char_index == info.start_char + idx.char
         IN IF char_index <= info.end_char THEN Some(char_index) ELSE None

\* text::cursor::index_before_char: the first line holding the offset, so an
\* offset at a line break is the end of the earlier line
index_before_char(infos, char_index) ==
    LET hits == { i \in 1..Len(infos) :
                    /\ infos[i].start_char <= char_index
                    /\ char_index <= infos[i].end_char }
    IN IF hits = {}
       THEN None
       ELSE LET i == CHOOSE j \in hits : \A k \in hits : j <= k
            IN Some(Index(i - 1, char_index - infos[i].start_char))

----------------------------------------------------------------------------
(* Iterator adaptors over the characters of a String *)

Take(s, n) == SubSeq(s, 1, IF n < Len(s) THEN n ELSE Len(s))
Skip(s, n) == IF n >= Len(s) THEN <<>> ELSE SubSeq(s, n + 1, Len(s))

----------------------------------------------------------------------------
(* Cursor *)

CursorIdx(i) == [kind |-> "Idx", idx |-> i]
CursorSelection(s, e) == [kind |-> "Selection", start |-> s, end |-> e]

\* `let cursor_idx = match cursor`: the index the caret line is drawn at
CursorLineIdx(c) == IF c.kind = "Idx" THEN c.idx ELSE c.end

----------------------------------------------------------------------------
(* text::line::rects / text::cursor::xys_per_line: the Geometry Mapper.     *)
(* Positions are in half glyph units on x (so a pointer can sit midway      *)
(* between two cursor positions) and in font-size units on y, y growing     *)
(* upwards from the top of the first line.                                  *)

\* the x of each cursor position of a line: before its first character and
\* after each of its characters
RECURSIVE CursorXs(_, _)
CursorXs(line, x) ==
    IF line = <<>>
    THEN <<x>>
    ELSE <<x>> \o CursorXs(Tail(line), x + 2 * CharWidth(Head(line)))

\* the vertical Range of line i (0-based)
LineY(i) ==
    [start |-> 0 - i * (FontSize + LineSpacing) - FontSize,
     end   |-> 0 - i * (FontSize + LineSpacing)]

Middle(r) == (r.start + r.end) \div 2
IsOver(r, pos) == pos >= r.start /\ pos <= r.end
Abs(n) == IF n < 0 THEN 0 - n ELSE n

\* xys_per_line(lines_with_rects, ..): per line, its cursor xs and its y Range
xys_per_line(txt, infos) ==
    [ i \in 1..Len(infos) |->
        [xs |-> CursorXs(SubSeq(txt, infos[i].start_char + 1, infos[i].end_char), 0),
         y  |-> LineY(i - 1)] ]

\* the `for (line_idx, (_, line_y)) in xys_per_line_enumerated` loop; i is the
\* 1-based position of the line examined next
RECURSIVE ClosestLine(_, _, _, _, _)
ClosestLine(xys, i, y, closest_line_idx, closest_diff) ==
    IF i > Len(xys)
    THEN closest_line_idx
    ELSE IF IsOver(xys[i].y, y)
         THEN i - 1
         ELSE LET diff == Abs(y - Middle(xys[i].y))
              IN IF diff < closest_diff
                 THEN ClosestLine(xys, i + 1, y, i - 1, diff)
                 ELSE closest_line_idx

\* a scan that also moves on to a position no farther than the best so far
RECURSIVE ClosestX_OnTies(_, _, _, _, _)
ClosestX_OnTies(xs, i, x, closest, closest_diff) ==
    IF i > Len(xs)
    THEN closest
    ELSE LET diff == Abs(x - xs[i])
         IN IF diff <= closest_diff
            THEN ClosestX_OnTies(xs, i + 1, x, i - 1, diff)
            ELSE closest

\* the `for (i, x) in xs_enumerated` loop; i is the 1-based position of the x
\* examined next, closest the 0-based index of the best so far
RECURSIVE ClosestX(_, _, _, _, _)
ClosestX(xs, i, x, closest, closest_diff) ==
    IF i > Len(xs)
    THEN closest
    ELSE LET diff == Abs(x - xs[i])
         IN IF diff < closest_diff
            THEN ClosestX(xs, i + 1, x, i - 1, diff)
            ELSE closest

\* the closure closest_cursor_index_and_xy (its Index; the Point is only drawn)
closest_cursor_index_and_xy(xy, txt, infos) ==
    LET xys == xys_per_line(txt, infos)
    IN IF Len(xys) = 0
       THEN None
       ELSE LET line == ClosestLine(xys, 2, xy[2], 0, Abs(xy[2] - Middle(xys[1].y)))
                xs == xys[line + 1].xs
                char == ClosestX(xs, 2, xy[1], 0, Abs(xy[1] - xs[1]))
            IN Some(Index(line, char))

\* text::line::selected_rects: one rectangle per line from start's to end's,
\* each clipped to the selected part of its line; none when start = end
SelectedRect(xys, l, start, end) ==
    LET xs == xys[l + 1].xs
        At(ch) == xs[IF ch + 1 <= Len(xs) THEN ch + 1 ELSE Len(xs)]
    IN [y |-> xys[l + 1].y,
        x_start |-> IF l = start.line THEN At(start.char) ELSE xs[1],
        x_end |-> IF l = end.line THEN At(end.char) ELSE xs[Len(xs)]]

selected_rects(txt, infos, start, end) ==
    LET xys == xys_per_line(txt, infos)
        last == IF end.line < Len(xys) THEN end.line ELSE Len(xys) - 1
    IN IF start = end \/ last < start.line
       THEN <<>>
       ELSE [ i \in 1..(last - start.line + 1) |->
                SelectedRect(xys, start.line + i - 1, start, end) ]

\* where the model puts the pointer
PointerXs == {0, 3, 6}
PointerYs == {0 - 12, 0 - 37}
Points == { <<x, y>> : x \in PointerXs, y \in PointerYs }

----------------------------------------------------------------------------
(* The state after construction *)

\* Widget::init_state
init_state ==
    [cursor |-> CursorIdx(Index(0, 0)), drag |-> "None", line_infos |-> <<>>]

\* history only: the linear offset of a cursor index in the current buffer;
\* in the empty buffer, which has no line, the index (0, 0) is offset 0
Offset(idx) ==
    IF text = <<>> /\ idx = Index(0, 0)
    THEN Some(0)
    ELSE index_after_cursor(line_infos(text, line_wrap, rect.w), idx)

\* history only: what the cursor is: a caret, or a selection that is stale
\* (an end has no offset), empty, dragged forwards or dragged backwards
CursorShape(c) ==
    IF c.kind = "Idx" THEN "Idx"
    ELSE LET p == Offset(c.start)
             q == Offset(c.end)
         IN IF ~IsSome(p) \/ ~IsSome(q) THEN "SelStale"
            ELSE IF p = q THEN "SelEmpty"
            ELSE IF Unwrap(p) < Unwrap(q) THEN "SelFwd" ELSE "SelRev"

Event(op, out) ==
    [op |-> op, out |-> out,
     pre |-> IF op \in {"Text", "Backspace"} THEN CursorShape(cursor) ELSE "-"]

NoUndo == [orig |-> <<>>, left |-> 0 - 1]

\* history only: what the step op does to anchor and pressed; read after the
\* step's cursor is known.  The count of drags stops at two.
Track(op) ==
    /\ pressed' = IF op = "Press" THEN TRUE
                  ELSE IF op = "Release" THEN FALSE ELSE pressed
    /\ anchor' =
          IF op = "Press"
          THEN IF cursor'.kind = "Idx"
               THEN Some([idx |-> cursor'.idx, drags |-> 0])
               ELSE None
          ELSE IF op = "Drag"
          THEN IF IsSome(anchor)
               THEN Some([Unwrap(anchor) EXCEPT
                            !.drags = IF @ < 2 THEN @ + 1 ELSE @])
               ELSE None
          ELSE IF op \in {"BeginPass", "EndPass"} THEN anchor
          ELSE None

\* the loop takes the next event of the batch; no arm reads or writes `enabled`
TakeEvent ==
    /\ pc = "events"
    /\ nev > 0
    /\ nev' = nev - 1
    /\ enabled' = enabled

InitIn(rects) ==
    /\ text \in HostTexts
    /\ rect \in rects
    /\ line_wrap \in Wraps
    /\ enabled = TRUE
    /\ state = init_state
    /\ cursor = init_state.cursor
    /\ drag = init_state.drag
    /\ pc = "idle"
    /\ nev = 0
    /\ ev = [op |-> "init", out |-> "", pre |-> "-"]
    /\ undo = NoUndo
    /\ anchor = None
    /\ pressed = FALSE
    /\ updated = {}

Init == InitIn(Rects)

----------------------------------------------------------------------------
(* The head and the tail of update *)

\* utils::write_if_different: the new layout if it differs from the cached one
write_if_different(old, new) == IF old = new THEN None ELSE Some(new)

\* The host calls update on a widget built with a text, a rect, a wrap policy
\* and the enabled flag; the cached layout is refreshed and the locals are
\* loaded.
BeginPass(t, r, wrap, en, n) ==
    /\ pc = "idle"
    /\ text' = t
    /\ rect' = r
    /\ line_wrap' = wrap
    /\ enabled' = en
    /\ LET maybe_new_line_infos ==
               write_if_different(state.line_infos, line_infos(t, wrap, r.w))
       IN /\ state' = IF IsSome(maybe_new_line_infos)
                      THEN [state EXCEPT
                              !.line_infos = Unwrap(maybe_new_line_infos)]
                      ELSE state
          /\ updated' = IF IsSome(maybe_new_line_infos)
                        THEN {"line_infos"} ELSE {}
    /\ cursor' = state.cursor
    /\ drag' = state.drag
    /\ pc' = "events"
    /\ nev' = n
    /\ ev' = Event("BeginPass", "")
    /\ Track("BeginPass")
    /\ undo' = IF t = text /\ r = rect /\ wrap = line_wrap THEN undo ELSE NoUndo

\* a write-back that does not compare first
written_Always(f) == TRUE

\* `state.view().cursor != cursor`, `state.view().drag != drag`
written(f) ==
    IF f = "cursor" THEN state.cursor /= cursor ELSE state.drag /= drag

\* a highlight computed from the selection's ends as they are held
Draw_Unsorted(c) ==
    [caret |-> CursorLineIdx(c),
     rects |-> IF c.kind = "Selection"
               THEN selected_rects(text, state.line_infos, c.start, c.end)
               ELSE <<>>]

\* the tail of update, which changes none of the variables here: the index
\* the caret line is drawn at and the highlight rectangles of the cursor c
\* over the cached layout, as emitted when the widget captures the keyboard
Draw(c) ==
    [caret |-> CursorLineIdx(c),
     rects |-> IF c.kind = "Selection"
               THEN LET start == IndexMin(c.start, c.end)
                        end == IndexMax(c.start, c.end)
                    IN selected_rects(text, state.line_infos, start, end)
               ELSE <<>>]

\* The events are exhausted: the locals are written back where they differ.
EndPass ==
    /\ pc = "events"
    /\ state' = [state EXCEPT
                    !.cursor = IF written("cursor") THEN cursor ELSE @,
                    !.drag = IF written("drag") THEN drag ELSE @]
    /\ pc' = "idle"
    /\ ev' = Event("EndPass", IF ev.op = "Release" THEN ev.out ELSE "")
    /\ Track("EndPass")
    /\ updated' = {f \in {"cursor", "drag"} : written(f)}
    /\ UNCHANGED <<text, rect, line_wrap, enabled, cursor, drag, nev, undo>>

\* A panic unwinds out of update: nothing more happens to this widget.
Panic(op) ==
    /\ pc' = "panic"
    /\ ev' = Event(op, "panic")
    /\ Track(op)
    /\ updated' = {}
    /\ undo' = NoUndo
    /\ UNCHANGED <<text, rect, line_wrap, state, cursor, drag>>

----------------------------------------------------------------------------
(* event::Widget::Press, mouse *)

\* a press that, on a selection, starts to move it
PressMouseLeft_MovesSelection(xy) ==
    /\ TakeEvent
    /\ undo' = NoUndo
    /\ LET closest == closest_cursor_index_and_xy(xy, text, state.line_infos)
       IN cursor' = IF IsSome(closest) THEN CursorIdx(Unwrap(closest)) ELSE cursor
    /\ drag' = IF cursor.kind = "Selection" THEN "MoveSelection" ELSE "Selecting"
    /\ ev' = Event("Press", "")
    /\ Track("Press")
    /\ updated' = {}
    /\ UNCHANGED <<text, rect, line_wrap, state, pc>>

PressMouseLeft(xy) ==
    /\ TakeEvent
    /\ undo' = NoUndo
    /\ LET closest == closest_cursor_index_and_xy(xy, text, state.line_infos)
       IN cursor' = IF IsSome(closest) THEN CursorIdx(Unwrap(closest)) ELSE cursor
    /\ drag' = "Selecting"
    /\ ev' = Event("Press", "")
    /\ Track("Press")
    /\ updated' = {}
    /\ UNCHANGED <<text, rect, line_wrap, state, pc>>

----------------------------------------------------------------------------
(* event::Widget::Press, keyboard: Backspace *)

\* a removal that takes one character too many at the front of the span
RemoveRange_OffByOne(txt, a, b) == Take(txt, a + 1) \o Skip(txt, b + 1)

\* text.chars().take(a).chain(text.chars().skip(b)).collect()
RemoveRange(txt, a, b) == Take(txt, a) \o Skip(txt, b)

\* usize `idx - 1`: with overflow checks 0 - 1 panics, without it wraps
CheckedSub1(idx, overflow_checks) ==
    IF idx > 0 THEN Some(idx - 1)
    ELSE IF overflow_checks THEN None ELSE Some(UsizeMax)

NoEdit(out) ==
    [panic |-> FALSE, out |-> out, text |-> text, cursor |-> cursor,
     line_infos |-> state.line_infos, updates |-> {}]

\* the Cursor::Idx arm
BackspaceIdx(cursor_idx, overflow_checks) ==
    LET idx_after_cursor == index_after_cursor(state.line_infos, cursor_idx)
    IN IF ~IsSome(idx_after_cursor)
       THEN NoEdit("unresolved")
       ELSE LET idx == Unwrap(idx_after_cursor)
                sub == CheckedSub1(idx, overflow_checks)
            IN IF ~IsSome(sub)
               THEN [NoEdit("overflow") EXCEPT !.panic = TRUE]
               ELSE LET idx_to_remove == Unwrap(sub)
                        new_cursor_idx ==
                            index_before_char(state.line_infos, idx_to_remove)
                    IN IF ~IsSome(new_cursor_idx)
                       THEN NoEdit("start")
                       ELSE LET new_text == RemoveRange(text, idx_to_remove, idx)
                            IN [panic |-> FALSE, out |-> "char",
                                text |-> new_text,
                                cursor |-> CursorIdx(Unwrap(new_cursor_idx)),
                                line_infos |->
                                    line_infos(new_text, line_wrap, rect.w),
                                updates |-> {"line_infos"}]

\* the Cursor::Selection arm
BackspaceSelection(start, end) ==
    LET s == index_after_cursor(state.line_infos, start)
        e == index_after_cursor(state.line_infos, end)
    IN IF ~IsSome(s) \/ ~IsSome(e)
       THEN [NoEdit("expect") EXCEPT !.panic = TRUE]
       ELSE LET start_idx == IF Unwrap(s) <= Unwrap(e) THEN Unwrap(s) ELSE Unwrap(e)
                end_idx == IF Unwrap(s) <= Unwrap(e) THEN Unwrap(e) ELSE Unwrap(s)
                new_cursor_char_idx == IF start_idx > 0 THEN start_idx ELSE 0
                new_cursor_idx ==
                    index_before_char(state.line_infos, new_cursor_char_idx)
            IN IF ~IsSome(new_cursor_idx)
               THEN [NoEdit("expect") EXCEPT !.panic = TRUE]
               ELSE LET new_text == RemoveRange(text, start_idx, end_idx)
                    IN [panic |-> FALSE, out |-> "span",
                        text |-> new_text,
                        cursor |-> CursorIdx(Unwrap(new_cursor_idx)),
                        line_infos |-> line_infos(new_text, line_wrap, rect.w),
                        updates |-> {"line_infos"}]

\* an edit applied without the re-layout of the new buffer
Apply_KeepsLayout(op, r) ==
    IF r.panic
    THEN Panic(op)
    ELSE /\ text' = r.text
         /\ cursor' = r.cursor
         /\ ev' = Event(op, r.out)
         /\ Track(op)
         /\ updated' = {}
         /\ undo' = IF undo.left > 0 THEN [undo EXCEPT !.left = @ - 1] ELSE NoUndo
         /\ UNCHANGED <<rect, line_wrap, state, drag, pc>>

\* an edit's outcome applied: the panic, or the new buffer, cursor and layout
Apply(op, r) ==
    IF r.panic
    THEN Panic(op)
    ELSE /\ text' = r.text
         /\ cursor' = r.cursor
         /\ state' = [state EXCEPT !.line_infos = r.line_infos]
         /\ ev' = Event(op, r.out)
         /\ Track(op)
         /\ updated' = r.updates
         /\ undo' = IF undo.left > 0 THEN [undo EXCEPT !.left = @ - 1] ELSE NoUndo
         /\ UNCHANGED <<rect, line_wrap, drag, pc>>

KeyBackspace ==
    /\ TakeEvent
    /\ \E overflow_checks \in BOOLEAN :
          Apply("Backspace",
                IF cursor.kind = "Idx"
                THEN BackspaceIdx(cursor.idx, overflow_checks)
                ELSE BackspaceSelection(cursor.start, cursor.end))

----------------------------------------------------------------------------
(* event::Widget::Press, keyboard: Left, Right, A and the keys without effect *)

CharCount(info) == info.end_char - info.start_char

\* text::cursor::Index::previous
previous(idx, infos) ==
    IF idx.char > 0
    THEN IF idx.line + 1 <= Len(infos) /\ idx.char - 1 <= CharCount(infos[idx.line + 1])
         THEN Some(Index(idx.line, idx.char - 1))
         ELSE None
    ELSE IF idx.line > 0 /\ idx.line <= Len(infos)
         THEN Some(Index(idx.line - 1, CharCount(infos[idx.line])))
         ELSE None

\* text::cursor::Index::next
next(idx, infos) ==
    IF idx.line + 1 > Len(infos)
    THEN None
    ELSE IF idx.char >= CharCount(infos[idx.line + 1])
         THEN IF idx.line + 2 <= Len(infos)
              THEN Some(Index(idx.line + 1, 0))
              ELSE None
         ELSE Some(Index(idx.line, idx.char + 1))

\* a fallback to the very first position instead of the caret's own
StayOr_Home(moved, cursor_idx) == UnwrapOr(moved, Index(0, 0))

\* cursor_idx.previous(line_infos).unwrap_or(cursor_idx), and the same of next
StayOr(moved, cursor_idx) == UnwrapOr(moved, cursor_idx)

KeyLeft(ctrl) ==
    /\ TakeEvent
    /\ undo' = NoUndo
    /\ cursor' =
          IF ctrl THEN cursor
          ELSE IF cursor.kind = "Idx"
               THEN CursorIdx(StayOr(previous(cursor.idx, state.line_infos),
                                     cursor.idx))
               ELSE CursorIdx(IndexMin(cursor.start, cursor.end))
    /\ ev' = Event("Left", IF ctrl THEN "ctrl" ELSE "")
    /\ Track("Left")
    /\ updated' = {}
    /\ UNCHANGED <<text, rect, line_wrap, state, drag, pc>>

KeyRight(ctrl) ==
    /\ TakeEvent
    /\ undo' = NoUndo
    /\ cursor' =
          IF ctrl THEN cursor
          ELSE IF cursor.kind = "Idx"
               THEN CursorIdx(StayOr(next(cursor.idx, state.line_infos),
                                     cursor.idx))
               ELSE CursorIdx(IndexMax(cursor.start, cursor.end))
    /\ ev' = Event("Right", IF ctrl THEN "ctrl" ELSE "")
    /\ Track("Right")
    /\ updated' = {}
    /\ UNCHANGED <<text, rect, line_wrap, state, drag, pc>>

\* the end of Ctrl+A's selection, against a layout of the current text
SelectAllEnd(txt, wrap, maxw) ==
    index_before_char(line_infos(txt, wrap, maxw), Len(txt))

KeyA(ctrl) ==
    /\ TakeEvent
    /\ undo' = NoUndo
    /\ IF ctrl
       THEN LET end == SelectAllEnd(text, line_wrap, rect.w)
            IN IF ~IsSome(end)
               THEN Panic("A")
               ELSE /\ cursor' = CursorSelection(Index(0, 0), Unwrap(end))
                    /\ ev' = Event("A", "ctrl")
                    /\ Track("A")
                    /\ updated' = {}
                    /\ UNCHANGED <<text, rect, line_wrap, state, drag, pc>>
       ELSE /\ ev' = Event("A", "")
            /\ Track("A")
            /\ updated' = {}
            /\ UNCHANGED <<text, rect, line_wrap, state, cursor, drag, pc>>

\* Up, Down, E (with or without Ctrl) and every other key: empty arms
ReservedKeys == {"Up", "Down", "E", "Return"}
\* the presses of them the model delivers, <<key, ctrl>>
ReservedPresses ==
    { <<"Up", FALSE>>, <<"Down", FALSE>>, <<"E", TRUE>>, <<"Return", FALSE>> }

\* a Return that puts a line break at the end of the buffer
KeyReserved_ReturnEdits(key, ctrl) ==
    /\ key \in ReservedKeys
    /\ TakeEvent
    /\ undo' = NoUndo
    /\ text' = IF key = "Return" THEN Append(text, "\n") ELSE text
    /\ ev' = Event(key, IF ctrl THEN "ctrl" ELSE "")
    /\ Track(key)
    /\ updated' = {}
    /\ UNCHANGED <<rect, line_wrap, state, cursor, drag, pc>>

KeyReserved(key, ctrl) ==
    /\ key \in ReservedKeys
    /\ TakeEvent
    /\ undo' = NoUndo
    /\ ev' = Event(key, IF ctrl THEN "ctrl" ELSE "")
    /\ Track(key)
    /\ updated' = {}
    /\ UNCHANGED <<text, rect, line_wrap, state, cursor, drag, pc>>

----------------------------------------------------------------------------
(* event::Widget::Release *)

\* a release that forgets to end the drag
ReleaseMouseLeft_KeepsDrag ==
    /\ TakeEvent
    /\ undo' = NoUndo
    /\ ev' = Event("Release", "")
    /\ Track("Release")
    /\ updated' = {}
    /\ UNCHANGED <<text, rect, line_wrap, state, cursor, drag, pc>>

ReleaseMouseLeft ==
    /\ TakeEvent
    /\ undo' = NoUndo
    /\ drag' = "None"
    /\ ev' = Event("Release", drag)
    /\ Track("Release")
    /\ updated' = {}
    /\ UNCHANGED <<text, rect, line_wrap, state, cursor, pc>>

----------------------------------------------------------------------------
(* event::Widget::Text *)

\* the two `continue 'events` filters
IsFiltered(string, ctrl) ==
    \/ ctrl
    \/ Len(string) = 0
    \/ \E c \in ArrowChars : string = <<c>>

\* a splice that skips to the start of the span, so keeps the selected text
InsertText_KeepsSpan(txt, start_idx, end_idx, string) ==
    Take(txt, start_idx) \o string \o Skip(txt, start_idx)

\* text.chars().take(start_idx).chain(string.chars())
\*     .chain(text.chars().skip(end_idx)).collect()
InsertText(txt, start_idx, end_idx, string) ==
    Take(txt, start_idx) \o string \o Skip(txt, end_idx)

\* new_cursor_idx: resolved against the layout of the text before the edit
NewCursorIdx(infos, start_idx, string) ==
    LET char_count == Len(string)
        new_cursor_char_idx == start_idx + Len(string)
    IN UnwrapOr(index_before_char(infos, new_cursor_char_idx),
                Index(0, char_count))

\* a guard that lets a text exactly as high as the rect through
HeightFits_AtMost(h, rect_h) == h <= rect_h

\* `if height < rect.h()`
HeightFits(h, rect_h) == h < rect_h

\* the (new_text, new_cursor) of a Text event that passed the filters
Insert(string) ==
    LET cursor_start == IF cursor.kind = "Idx" THEN cursor.idx
                        ELSE IndexMin(cursor.start, cursor.end)
        cursor_end == IF cursor.kind = "Idx" THEN cursor.idx
                      ELSE IndexMax(cursor.start, cursor.end)
        line_infos_vec == line_infos(text, line_wrap, rect.w)
        start_idx == UnwrapOr(index_after_cursor(line_infos_vec, cursor_start), 0)
        end_idx == UnwrapOr(index_after_cursor(line_infos_vec, cursor_end), 0)
    IN [new_text |-> InsertText(text, start_idx, end_idx, string),
        new_cursor |-> CursorIdx(NewCursorIdx(line_infos_vec, start_idx, string))]

TextEvent(string, ctrl) ==
    /\ TakeEvent
    /\ IF IsFiltered(string, ctrl)
       THEN /\ ev' = Event("Text", "filtered")
            /\ Track("Text")
            /\ updated' = {}
            /\ undo' = NoUndo
            /\ UNCHANGED <<text, rect, line_wrap, state, cursor, drag, pc>>
       ELSE LET ins == Insert(string)
                new_line_infos == line_infos(ins.new_text, line_wrap, rect.w)
                num_lines == Len(new_line_infos)
            IN /\ HeightFits(height(num_lines), rect.h)
                     => Len(ins.new_text) <= MaxLen
               /\ IF HeightFits(height(num_lines), rect.h)
                  THEN /\ text' = ins.new_text
                       /\ cursor' = ins.new_cursor
                       /\ state' = [state EXCEPT !.line_infos = new_line_infos]
                       /\ ev' = Event("Text", "accepted")
                       /\ Track("Text")
                       /\ updated' = {"line_infos"}
                       /\ undo' = IF cursor.kind = "Idx" /\ IsSome(Offset(cursor.idx))
                                  THEN [orig |-> text, left |-> Len(string)]
                                  ELSE NoUndo
                       /\ UNCHANGED <<rect, line_wrap, drag, pc>>
                  ELSE /\ ev' = Event("Text", "rejected")
                       /\ Track("Text")
                       /\ updated' = {}
                       /\ undo' = NoUndo
                       /\ UNCHANGED <<text, rect, line_wrap, state, cursor,
                                      drag, pc>>

----------------------------------------------------------------------------
(* event::Widget::Drag *)

\* an anchor taken from the moving end of the selection
start_cursor_idx_FromEnd(c) == IF c.kind = "Idx" THEN c.idx ELSE c.end

\* let start_cursor_idx = match cursor { Idx(idx) => idx, Selection { start, .. } => start }
start_cursor_idx(c) == IF c.kind = "Idx" THEN c.idx ELSE c.start

\* the cursor a drag to the point `to` selects from the cursor c
Selected(c, to) ==
    LET closest == closest_cursor_index_and_xy(to, text, state.line_infos)
    IN IF IsSome(closest)
       THEN CursorSelection(start_cursor_idx(c), Unwrap(closest))
       ELSE c

\* a drag that selects whatever the drag mode
DragTo_AnyMode(mode, c, to) == Selected(c, to)

\* `match drag`: Some(Drag::Selecting) selects; Some(Drag::MoveSelection)
\* and None are empty arms
DragTo(mode, c, to) ==
    IF mode = "Selecting" THEN Selected(c, to)
    ELSE IF mode = "MoveSelection" THEN c
    ELSE c

DragMouseLeft(to) ==
    /\ TakeEvent
    /\ undo' = NoUndo
    /\ cursor' = DragTo(drag, cursor, to)
    /\ ev' = Event("Drag", drag)
    /\ Track("Drag")
    /\ updated' = {}
    /\ UNCHANGED <<text, rect, line_wrap, state, drag, pc>>

----------------------------------------------------------------------------
(* The specification *)

\* a pass begins: the host may have replaced the buffer, resized the widget
\* or changed the wrap policy since the last one
HostPass ==
    \E t \in {text} \cup HostTexts, r \in Rects,
       wrap \in Wraps : BeginPass(t, r, wrap, TRUE, MaxBatch)

\* the same with the widget built by .enabled(false)
HostPassDisabled ==
    \E t \in {text} \cup HostTexts, r \in Rects,
       wrap \in Wraps : BeginPass(t, r, wrap, FALSE, MaxBatch)

\* every event but Text
OtherEvent ==
    \/ \E xy \in Points : PressMouseLeft(xy)
    \/ \E xy \in Points : DragMouseLeft(xy)
    \/ ReleaseMouseLeft
    \/ KeyBackspace
    \/ \E ctrl \in BOOLEAN : KeyLeft(ctrl)
    \/ \E ctrl \in BOOLEAN : KeyRight(ctrl)
    \/ \E ctrl \in BOOLEAN : KeyA(ctrl)
    \/ \E press \in ReservedPresses : KeyReserved(press[1], press[2])

Next ==
    \/ HostPass
    \/ EndPass
    \/ OtherEvent
    \/ \E input \in TextInputs(Strings) : TextEvent(input[1], input[2])

Spec == Init /\ [][Next]_vars

\* the same widget on a host whose Text events also carry arrow-key texts
NextArrows ==
    \/ HostPass
    \/ EndPass
    \/ OtherEvent
    \/ \E input \in TextInputs(Strings \cup ArrowStrings) :
          TextEvent(input[1], input[2])

SpecArrows == Init /\ [][NextArrows]_vars

\* the same widget on a host that always disables user input
NextDisabled ==
    \/ HostPassDisabled
    \/ EndPass
    \/ OtherEvent
    \/ \E input \in TextInputs(Strings) : TextEvent(input[1], input[2])

SpecDisabled == Init /\ [][NextDisabled]_vars

\* a host that queues one more event for each pass, and leaves the buffer,
\* the rect and the wrap policy as they are
HostPassLonger == BeginPass(text, rect, line_wrap, TRUE, MaxBatch + 1)

NextLonger ==
    \/ HostPassLonger
    \/ EndPass
    \/ OtherEvent
    \/ TextEvent(<<"a">>, FALSE)

SpecLonger == Init /\ [][NextLonger]_vars

\* a host that resizes the widget between passes, down to the height of one
\* line, and leaves the buffer and the wrap policy as they are
HostPassTight ==
    \E r \in TightRects : BeginPass(text, r, line_wrap, TRUE, MaxBatch)

NextTight ==
    \/ HostPassTight
    \/ EndPass
    \/ OtherEvent
    \/ \E input \in TextInputs(Strings) : TextEvent(input[1], input[2])

SpecTight == InitIn(TightRects) /\ [][NextTight]_vars

----------------------------------------------------------------------------
(* What the properties below refer to *)

\* the layout of a buffer under the pass's wrap policy and width
LayoutOf(txt) == line_infos(txt, line_wrap, rect.w)

\* the linear offset of a cursor index in the current buffer, if it has one
Resolve(idx) == index_after_cursor(LayoutOf(text), idx)

\* the linear offset of a cursor index in buffer txt; in the empty buffer,
\* which has no line, the index (0, 0) is offset 0
OffsetIn(txt, idx) ==
    IF txt = <<>> /\ idx = Index(0, 0)
    THEN Some(0)
    ELSE index_after_cursor(LayoutOf(txt), idx)

\* the two ends of the cursor: the caret twice, or the selection's ends
EndA == IF cursor.kind = "Idx" THEN cursor.idx ELSE cursor.start
EndB == IF cursor.kind = "Idx" THEN cursor.idx ELSE cursor.end

\* both ends have a linear offset in the current buffer
SpanResolves == IsSome(Offset(EndA)) /\ IsSome(Offset(EndB))
SpanFrom ==
    IF Unwrap(Offset(EndA)) <= Unwrap(Offset(EndB))
    THEN Unwrap(Offset(EndA)) ELSE Unwrap(Offset(EndB))
SpanTo ==
    IF Unwrap(Offset(EndA)) <= Unwrap(Offset(EndB))
    THEN Unwrap(Offset(EndB)) ELSE Unwrap(Offset(EndA))

\* txt with the characters at offsets [a, b) replaced by string
Replaced(txt, a, b, string) ==
    SubSeq(txt, 1, a) \o string \o SubSeq(txt, b + 1, Len(txt))

\* a Text event's string gets past both filters
PassesFilters(string) ==
    /\ Len(string) > 0
    /\ ~(Len(string) = 1 /\ string[1] \in ArrowChars)

\* the cursor is a caret at linear offset o of buffer txt
CaretAt(c, txt, o) == c.kind = "Idx" /\ OffsetIn(txt, c.idx) = Some(o)

----------------------------------------------------------------------------
(* C1..C10 *)

\* C1: a Text event that passes the filters and whose prospective text lays
\* out at a height not strictly less than the rect's height changes neither
\* the buffer nor the cursor nor the cached layout.
C1_HeightGuardAllOrNothing ==
    [][\A string \in Strings :
          ( /\ ev'.op = "Text"
            /\ PassesFilters(string)
            /\ TextEvent(string, FALSE)
            /\ height(Len(LayoutOf(Insert(string).new_text))) >= rect.h )
          => /\ text' = text
             /\ cursor' = cursor
             /\ state'.line_infos = state.line_infos]_vars

\* a Text event has just been turned down by the height guard
C1_Witness == ev.op = "Text" /\ ev.out = "rejected"

\* C2: after an accepted insertion of a string at a span starting at offset
\* a, the cursor is a caret at offset a + len(string) of the new buffer.
C2_CaretAfterInsertedText ==
    [][\A string \in Strings :
          ( /\ ev'.op = "Text"
            /\ ev'.out = "accepted"
            /\ SpanResolves
            /\ TextEvent(string, FALSE) )
          => CaretAt(cursor', text', SpanFrom + Len(string))]_vars

\* C3: an accepted insertion of a string over the span [a, b) of the cursor
\* leaves old[0, a) ++ string ++ old[b, end), whatever the anchor direction.
C3_InsertSplicesSpan ==
    [][\A string \in Strings :
          ( /\ ev'.op = "Text"
            /\ ev'.out = "accepted"
            /\ SpanResolves
            /\ TextEvent(string, FALSE) )
          => /\ text' = Replaced(text, SpanFrom, SpanTo, string)
             /\ Len(text') = Len(text) - (SpanTo - SpanFrom) + Len(string)]_vars

\* an insertion has just replaced a non-empty selection dragged backwards
C3_Witness ==
    ev.op = "Text" /\ ev.out = "accepted" /\ ev.pre = "SelRev"

\* C4: Backspace at a caret at offset o > 0 removes exactly the character
\* at offset o - 1; Backspace over a selection whose ends resolve to p and q
\* removes exactly the characters in [min(p, q), max(p, q)).
C4_BackspaceRemovesSpan ==
    [][(ev'.op = "Backspace" /\ KeyBackspace) =>
          /\ ( /\ cursor.kind = "Idx"
               /\ IsSome(Resolve(cursor.idx))
               /\ Unwrap(Resolve(cursor.idx)) > 0 )
             => text' = Replaced(text, Unwrap(Resolve(cursor.idx)) - 1,
                                 Unwrap(Resolve(cursor.idx)), <<>>)
          /\ ( /\ cursor.kind = "Selection"
               /\ IsSome(Resolve(cursor.start))
               /\ IsSome(Resolve(cursor.end)) )
             => text' = Replaced(text, SpanFrom, SpanTo, <<>>)]_vars

\* Backspace has just removed a selection dragged backwards
C4_Witness == ev.op = "Backspace" /\ ev.out = "span" /\ ev.pre = "SelRev"

\* C5: after a Backspace that deletes a span starting at offset a, the cursor
\* is a caret at offset a of the new buffer.
C5_CaretAtStartOfDeletedSpan ==
    [][(ev'.op = "Backspace" /\ ev'.out \in {"char", "span"} /\ KeyBackspace) =>
          CaretAt(cursor', text',
                  IF cursor.kind = "Idx" THEN SpanFrom - 1 ELSE SpanFrom)]_vars

\* C6: Backspace at a caret at offset 0 changes nothing and does not fault.
C6_BackspaceAtStartIsNoOp ==
    [][( /\ ev'.op = "Backspace"
         /\ cursor.kind = "Idx"
         /\ Offset(cursor.idx) = Some(0)
         /\ KeyBackspace )
       => /\ pc' /= "panic"
          /\ UNCHANGED <<text, cursor, drag, state>>]_vars

\* C7: an accepted insertion of n characters at a caret, followed by n
\* Backspaces, leaves the buffer as it was before the insertion.
C7_InsertBackspaceInverse == undo.left = 0 => text = undo.orig

\* C8: Ctrl+A selects from (0, 0) to the index of the character count, against
\* a layout of the current text, and leaves the buffer and the drag mode; A
\* without Ctrl changes nothing.
C8_SelectAll ==
    [][/\ (ev'.op = "A" /\ KeyA(TRUE)) =>
             /\ pc' /= "panic"
             /\ IsSome(index_before_char(LayoutOf(text), Len(text)))
             /\ cursor' = CursorSelection(Index(0, 0),
                    Unwrap(index_before_char(LayoutOf(text), Len(text))))
             /\ text' = text
             /\ drag' = drag
       /\ (ev'.op = "A" /\ KeyA(FALSE)) => UNCHANGED <<text, cursor, drag, state>>]_vars

\* C9: a Text event with Ctrl held, with an empty string or with a string of
\* arrow-key characters only changes nothing.
C9_FilteredTextIsNoOp ==
    [][\A string \in Strings \cup ArrowStrings, ctrl \in BOOLEAN :
          ( /\ ev'.op = "Text"
            /\ \/ ctrl
               \/ Len(string) = 0
               \/ \A i \in 1..Len(string) : string[i] \in ArrowChars
            /\ TextEvent(string, ctrl) )
          => /\ pc' = pc
             /\ UNCHANGED <<text, cursor, drag, state>>]_vars

\* C10: no event ends in a panic.
C10_NoFatalError == pc /= "panic"

----------------------------------------------------------------------------
(* C11..C20 *)

\* the buffer's layout is exactly as high as the rect
HeightAtBudget == height(Len(LayoutOf(text))) = rect.h

\* C11, as stated: on a buffer whose height equals the rect's, a Text event
\* with a non-empty string, from any cursor, changes neither the buffer nor
\* the cursor nor the cached layout.
C11_FullBufferRejectsAnyInsert ==
    [][\A input \in TextInputs(Strings) :
          ( /\ ev'.op = "Text"
            /\ HeightAtBudget
            /\ Len(input[1]) > 0
            /\ TextEvent(input[1], input[2]) )
          => /\ text' = text
             /\ cursor' = cursor
             /\ state'.line_infos = state.line_infos]_vars

\* C11, amended: the same for a cursor that is a caret; a Selection may be
\* replaced by a text that lays out lower than the rect.
C11_FullBufferRejectsInsertAtCaret ==
    [][\A input \in TextInputs(Strings) :
          ( /\ ev'.op = "Text"
            /\ HeightAtBudget
            /\ cursor.kind = "Idx"
            /\ Len(input[1]) > 0
            /\ TextEvent(input[1], input[2]) )
          => /\ text' = text
             /\ cursor' = cursor
             /\ state'.line_infos = state.line_infos]_vars

\* the height guard has just turned down an insertion at a caret of a buffer
\* exactly as high as the rect
C11_Witness ==
    /\ ev.op = "Text" /\ ev.out = "rejected" /\ ev.pre = "Idx"
    /\ HeightAtBudget

\* C12: after a press of the left mouse button, from any state, the drag
\* mode is Selecting and the cursor is a caret, at the cursor index closest
\* to the pointer where the buffer has one.
C12_PressSetsCaretAndSelecting ==
    [][\A xy \in Points :
          (ev'.op = "Press" /\ PressMouseLeft(xy))
          => /\ drag' = "Selecting"
             /\ cursor'.kind = "Idx"
             /\ LET closest == closest_cursor_index_and_xy(xy, text, LayoutOf(text))
                IN IsSome(closest) => cursor' = CursorIdx(Unwrap(closest))]_vars

\* C13: a drag of the left button in drag mode Selecting, where the buffer has
\* a closest index, sets the cursor to the Selection from the anchor (the
\* caret, or the start of the Selection there was) to that index; so while
\* drags follow a press with no other event in between, the cursor's start
\* stays the index the press set.
C13_DragKeepsAnchor ==
    [][/\ \A to \in Points :
             ( /\ ev'.op = "Drag"
               /\ drag = "Selecting"
               /\ DragMouseLeft(to) )
             => LET closest == closest_cursor_index_and_xy(to, text, LayoutOf(text))
                IN IsSome(closest) =>
                      cursor' = CursorSelection(EndA, Unwrap(closest))
       /\ IsSome(anchor') => EndA' = Unwrap(anchor').idx]_vars

\* a second drag in a row after a press has just put the end of the selection
\* before its start
C13_Witness ==
    /\ ev.op = "Drag" /\ ev.out = "Selecting"
    /\ IsSome(anchor) /\ Unwrap(anchor).drags = 2
    /\ cursor.kind = "Selection"
    /\ cursor.end /= cursor.start /\ IndexLe(cursor.end, cursor.start)
    /\ state.cursor.kind = "Selection" /\ state.cursor.end /= cursor.end

\* C14: a release of the left button sets the drag mode to None and changes
\* neither the cursor nor the buffer; a drag changes the cursor only if a left
\* press was seen, in this pass or an earlier one, with no left release since;
\* a drag in drag mode None leaves the cursor as it is.
C14_DragGatedByPressAndRelease ==
    [][/\ (ev'.op = "Release" /\ ReleaseMouseLeft)
             => drag' = "None" /\ cursor' = cursor /\ text' = text
       /\ \A to \in Points :
             (ev'.op = "Drag" /\ DragMouseLeft(to))
             => /\ cursor' /= cursor => pressed
                /\ drag = "None" => cursor' = cursor]_vars

\* a drag has just changed the cursor in a pass later than the press's: the
\* stored drag mode is Selecting since that pass
C14_Witness ==
    /\ ev.op = "Drag" /\ ev.out = "Selecting" /\ pressed
    /\ state.drag = "Selecting"
    /\ cursor.kind = "Selection" /\ cursor /= state.cursor

\* the earlier and the later end of the Selection the cursor is, in the order
\* of cursor indices: by line, then by char
SelLow == IF IndexLe(cursor.start, cursor.end) THEN cursor.start ELSE cursor.end
SelHigh == IF IndexLe(cursor.start, cursor.end) THEN cursor.end ELSE cursor.start

\* C15: Left without Ctrl on a Selection leaves a caret at the smaller of its
\* two ends, Right at the larger, whichever end is the anchor; the buffer, the
\* drag mode and the cached layout stay.  With Ctrl held, Left and Right
\* change nothing.
C15_LeftRightCollapseSelection ==
    [][\A ctrl \in BOOLEAN :
          /\ (ev'.op = "Left" /\ KeyLeft(ctrl))
                => /\ ctrl => UNCHANGED <<text, cursor, drag, state>>
                   /\ (~ctrl /\ cursor.kind = "Selection")
                         => /\ cursor' = CursorIdx(SelLow)
                            /\ UNCHANGED <<text, drag, state>>
          /\ (ev'.op = "Right" /\ KeyRight(ctrl))
                => /\ ctrl => UNCHANGED <<text, cursor, drag, state>>
                   /\ (~ctrl /\ cursor.kind = "Selection")
                         => /\ cursor' = CursorIdx(SelHigh)
                            /\ UNCHANGED <<text, drag, state>>]_vars

\* Left, the first event of its pass, has just collapsed a selection whose
\* end was before its start to that end
C15_Witness ==
    /\ ev.op = "Left" /\ ev.out = "" /\ pc = "events"
    /\ state.cursor.kind = "Selection"
    /\ ~IndexLe(state.cursor.start, state.cursor.end)
    /\ CursorShape(state.cursor) = "SelRev"
    /\ cursor = CursorIdx(state.cursor.end)

\* the very last cursor position of a layout, if it has a line
LastIndex(infos) == Index(Len(infos) - 1, CharCount(infos[Len(infos)]))

\* the caret c' is at most one character away from the caret c, to the left
\* (by = -1) or to the right (by = 1), or where c is
WithinOne(c, cnew, by) ==
    /\ IsSome(Resolve(cnew.idx))
    /\ LET d == Unwrap(Resolve(cnew.idx)) - Unwrap(Resolve(c.idx))
       IN d = 0 \/ d = by

\* C16: Left or Right without Ctrl on a caret moves it to the previous or the
\* next cursor index of the layout of the buffer, and leaves it where there is
\* none: Left at the very first position, Right at the very last.  The buffer
\* stays, and the offset of a caret that has one changes by at most one.
C16_LeftRightMoveCaret ==
    [][/\ (ev'.op = "Left" /\ cursor.kind = "Idx" /\ KeyLeft(FALSE))
             => /\ cursor' = CursorIdx(UnwrapOr(previous(cursor.idx, LayoutOf(text)),
                                                cursor.idx))
                /\ cursor.idx = Index(0, 0) => cursor' = cursor
                /\ IsSome(Resolve(cursor.idx)) => WithinOne(cursor, cursor', 0 - 1)
                /\ text' = text
       /\ (ev'.op = "Right" /\ cursor.kind = "Idx" /\ KeyRight(FALSE))
             => /\ cursor' = CursorIdx(UnwrapOr(next(cursor.idx, LayoutOf(text)),
                                                cursor.idx))
                /\ (text /= <<>> /\ cursor.idx = LastIndex(LayoutOf(text)))
                      => cursor' = cursor
                /\ IsSome(Resolve(cursor.idx)) => WithinOne(cursor, cursor', 1)
                /\ text' = text]_vars

\* Right, the first event of its pass, has just left the caret at the very
\* last position of a two-line layout
C16_Witness ==
    /\ ev.op = "Right" /\ ev.out = "" /\ pc = "events"
    /\ Len(state.line_infos) = 2
    /\ state.cursor = CursorIdx(LastIndex(state.line_infos))
    /\ cursor = state.cursor

\* C17: in a pass of a widget built with enabled = false, no event changes
\* the buffer, the cursor or the drag mode.
C17_DisabledIgnoresInput ==
    [][(~enabled /\ pc = "events") => UNCHANGED <<text, cursor, drag>>]_vars

----------------------------------------------------------------------------
\* C18: the stored cursor and the stored drag mode are written only by the
\* step that ends a pass, never while the pass loads its locals or takes an
\* event; the pass starts its locals from the stored values; and the ending
\* step writes a field exactly when the local differs from the stored value,
\* after which the stored value is the local.
C18_FoldWithSingleWriteBack ==
    [][/\ pc' /= "idle"
             => /\ updated' \cap {"cursor", "drag"} = {}
                /\ state'.cursor = state.cursor
                /\ state'.drag = state.drag
       /\ (pc = "idle" /\ pc' = "events")
             => /\ cursor' = state.cursor
                /\ drag' = state.drag
       /\ (pc = "events" /\ pc' = "idle")
             => /\ state'.cursor = cursor
                /\ state'.drag = drag
                /\ ("cursor" \in updated') <=> (state.cursor /= cursor)
                /\ ("drag" \in updated') <=> (state.drag /= drag)]_vars

\* a pass from drag mode None has taken a press and then a release, which
\* found the mode Selecting: the caret the press placed was written, the drag
\* mode was not
C18_Witness ==
    /\ pc = "idle"
    /\ ev.op = "EndPass" /\ ev.out = "Selecting"
    /\ state.drag = "None"
    /\ "drag" \notin updated
    /\ "cursor" \in updated

----------------------------------------------------------------------------
\* C19: state.update is called on the cached layout only by a step whose
\* newly computed layout differs from the cached one, be the step the start
\* of a pass, an insertion or a Backspace.
C19_LayoutUpdatedOnlyWhenDifferent ==
    [][("line_infos" \in updated') => (state'.line_infos /= state.line_infos)]_vars

----------------------------------------------------------------------------
----------------------------------------------------------------------------
(* C21..C26 *)

\* the cursor indices the highlight is computed for: the positions of three
\* lines of up to two characters
DrawnIndices == { Index(l, c) : l \in 0..2, c \in 0..2 }

\* C21: at the end of a pass, over the buffer and the layout it left, the
\* highlight rectangles of Selection{start: a, end: b} are those of
\* Selection{start: b, end: a} for any two cursor indices a and b, and the
\* caret line of Selection{start: a, end: b} is drawn at b.
C21_HighlightSymmetry ==
    pc = "idle" =>
        \A a, b \in DrawnIndices :
            /\ Draw(CursorSelection(a, b)).rects = Draw(CursorSelection(b, a)).rects
            /\ Draw(CursorSelection(a, b)).caret = b

\* a pass has ended on a selection dragged backwards over two lines, whose
\* caret line is at its end, the earlier index
C21_Witness ==
    /\ pc = "idle" /\ ev.op = "EndPass"
    /\ CursorShape(state.cursor) = "SelRev"
    /\ Len(Draw(state.cursor).rects) = 2
    /\ Draw(state.cursor).caret = IndexMin(state.cursor.start, state.cursor.end)

----------------------------------------------------------------------------
\* the horizontal distance from the pointer's x to the cursor position ch
\* (0-based) of a line with the cursor positions xs
XDiff(xs, x, ch) == Abs(x - xs[ch + 1])

\* the pointer's x is as far from the cursor position ch as from the next one
IsTie(xs, x, ch) == ch + 2 <= Len(xs) /\ XDiff(xs, x, ch) = XDiff(xs, x, ch + 1)

\* C22: in every state of the loop and for every pointer position, the
\* closest index is on a line of the layout and at a character position of
\* that line; the distances of the positions up to it strictly decrease and
\* the position after it, if any, is not strictly closer, so that of two
\* adjacent positions equally far from the pointer the left one is returned.
C22_ClosestIndexTieBreak ==
    pc = "events" =>
        \A xy \in Points :
            LET r == closest_cursor_index_and_xy(xy, text, state.line_infos)
            IN IsSome(r) =>
                  LET idx == Unwrap(r)
                      infos == state.line_infos
                  IN IF idx.line < Len(infos)
                     THEN LET xs == xys_per_line(text, infos)[idx.line + 1].xs
                          IN /\ idx.char <= CharCount(infos[idx.line + 1])
                             /\ \A ch \in 1..idx.char :
                                   XDiff(xs, xy[1], ch) < XDiff(xs, xy[1], ch - 1)
                             /\ idx.char < CharCount(infos[idx.line + 1])
                                   => XDiff(xs, xy[1], idx.char + 1)
                                         >= XDiff(xs, xy[1], idx.char)
                             /\ idx.char > 0 => ~IsTie(xs, xy[1], idx.char - 1)
                     ELSE FALSE

\* a press has put the caret at the left one of two positions equally far
\* from the pointer
C22_Witness ==
    /\ ev.op = "Press"
    /\ cursor.kind = "Idx"
    /\ \E xy \in Points :
          /\ closest_cursor_index_and_xy(xy, text, state.line_infos)
                = Some(cursor.idx)
          /\ IsTie(xys_per_line(text, state.line_infos)[cursor.idx.line + 1].xs,
                   xy[1], cursor.idx.char)

----------------------------------------------------------------------------
\* C23: after the start of a pass and after every event of it, the cached
\* layout is the layout of the current buffer under the pass's width and
\* wrap policy.
C23_LayoutCoherence ==
    pc = "events" => state.line_infos = LayoutOf(text)

\* a Backspace has taken one character out of a buffer of three, and the
\* cached layout has been replaced
C23_Witness ==
    /\ pc = "events"
    /\ ev.op = "Backspace" /\ ev.out = "char"
    /\ "line_infos" \in updated
    /\ Len(text) = 2
    /\ Len(state.line_infos) = 2

----------------------------------------------------------------------------
\* the cursor indices a cursor holds
HeldIndices(c) == IF c.kind = "Idx" THEN {c.idx} ELSE {c.start, c.end}

\* C24: on a host that leaves the buffer, the width and the wrap policy to
\* the widget, in every state of a pass each index the cursor holds resolves
\* to a linear offset against the cached layout (in the empty buffer, which
\* has no line, the index (0, 0) is taken to resolve).
C24_CursorAlwaysResolves ==
    pc = "events" =>
        \A idx \in HeldIndices(cursor) :
            \/ IsSome(index_after_cursor(state.line_infos, idx))
            \/ (text = <<>> /\ idx = Index(0, 0))

----------------------------------------------------------------------------
\* the steps of the loop that may edit
EditOps == {"Backspace", "Text"}

\* C25: a step of a pass that changes the buffer is a Backspace or an
\* accepted Text event; every other step of the pass (press, drag, release,
\* Left, Right, A, the other keys, a filtered or rejected Text event, the
\* end of the pass) leaves the buffer and the cached layout as they were.
C25_BufferFrame ==
    [][pc = "events"
          => /\ (text' /= text)
                   => \/ ev'.op = "Backspace"
                      \/ (ev'.op = "Text" /\ ev'.out = "accepted")
             /\ (ev'.op \notin EditOps \/ ev'.out \in {"filtered", "rejected"})
                   => /\ text' = text
                      /\ state'.line_infos = state.line_infos]_vars

\* Ctrl+A has selected a buffer of three characters, which is as the host
\* gave it
C25_Witness ==
    /\ pc = "events"
    /\ ev.op = "A" /\ ev.out = "ctrl"
    /\ CursorShape(cursor) = "SelFwd"
    /\ text \in HostTexts /\ Len(text) = 3
    /\ state.line_infos = LayoutOf(text)

----------------------------------------------------------------------------
\* the drag modes of Option<Drag>
DragModes == {"None", "Selecting", "MoveSelection"}

\* C26: in every state, the local drag mode and the stored one are None or
\* Selecting, never MoveSelection.
C26_MoveSelectionUnreachable ==
    /\ drag \in DragModes \ {"MoveSelection"}
    /\ state.drag \in DragModes \ {"MoveSelection"}

\* a drag has been started in one pass and is still on in a later one
C26_Witness ==
    /\ pc = "events"
    /\ ev.op = "Drag" /\ ev.out = "Selecting"
    /\ state.drag = "Selecting"
    /\ drag = "Selecting"
    /\ IsSome(anchor) /\ Unwrap(anchor).drags = 1

====
